---- MODULE Spec2Model ----
(***************************************************************************)
(* Model of pkg/deployer (SimpleDeployer): the translation of an           *)
(* MCPServerSpec into a Deployment and a Service manifest, and the three   *)
(* operations DeployMCPServer, ListMCPServers and DeleteMCPServer run      *)
(* against a cluster API whose calls may fail.                             *)
(***************************************************************************)
EXTENDS Integers, Sequences, FiniteSets, TLC

(***************************************************************************)
(* Bounds of the model.                                                    *)
(***************************************************************************)
\* longest secret-mount list enumerated exhaustively
MaxMounts == 2
\* length of the one long secret-mount list (two-digit volume indexes)
LongMounts == 11

(***************************************************************************)
(* Program constants.                                                      *)
(***************************************************************************)
MCPServerLabel == "mcp.opendatahub.io/mcp-server"
\* replicas := int32(1)
Replicas == 1

(***************************************************************************)
(* Go values.  A Go map is a record [isNil, m]: a nil map and an empty     *)
(* map are different values that range alike.  An error is the sequence    *)
(* of its context strings, outermost first; nil is the empty sequence.     *)
(***************************************************************************)
NilMap == [isNil |-> TRUE, m |-> <<>>]
GoMap(f) == [isNil |-> FALSE, m |-> f]
NoError == <<>>
\* fmt.Errorf("<context>: %w", err)
Wrap(context, err) == <<context>> \o err

\* fmt's %d verb for a non-negative integer
DigitStr == <<"0", "1", "2", "3", "4", "5", "6", "7", "8", "9">>
RECURSIVE Itoa(_)
Itoa(n) == IF n < 10 THEN DigitStr[n + 1]
           ELSE Itoa(n \div 10) \o DigitStr[(n % 10) + 1]

(***************************************************************************)
(* Inputs.                                                                 *)
(***************************************************************************)
Namespaces == {"ns1", "ns2"}
\* metav1.NamespaceAll
NamespaceAll == ""
ServerNames == {"s1"}
ForeignName == "legacy"
Names == ServerNames \cup {ForeignName}
\* every object key of the model, in the order the API lists them
AllKeys == << <<"default", "s1">>, <<"ns1", "legacy">>, <<"ns1", "s1">>, <<"ns2", "s1">> >>
KeySet == {AllKeys[i] : i \in 1..Len(AllKeys)}

SecretMountPool == {[SecretName |-> "sec1", MountPath |-> "/a"],
                    [SecretName |-> "sec1", MountPath |-> "/b"],
                    [SecretName |-> "sec2", MountPath |-> "/a"]}
MountLists == UNION {[1..n -> SecretMountPool] : n \in 0..MaxMounts}
                \cup {[i \in 1..LongMounts |-> [SecretName |-> "sec1", MountPath |-> "/a"]]}

LabelMaps == {NilMap, GoMap(<<>>),
              GoMap([k \in {"app"} |-> "x"]),
              GoMap([k \in {MCPServerLabel} |-> "true"]),
              GoMap([k \in {MCPServerLabel} |-> "false"]),
              GoMap([k \in {"app", MCPServerLabel} |-> IF k = "app" THEN "x" ELSE "true"]),
              GoMap([k \in {"app", MCPServerLabel} |-> IF k = "app" THEN "x" ELSE "false"])}
AnnotationMaps == {NilMap, GoMap([k \in {"description"} |-> "d"])}
Ports == {0, 8080, 9000}
\* *corev1.ResourceRequirements: a nil pointer, or a pointer to a value
NilResources == [isNil |-> TRUE, val |-> [Requests |-> NilMap, Limits |-> NilMap]]
ResourceValues == {NilResources,
                   [isNil |-> FALSE, val |-> [Requests |-> NilMap, Limits |-> NilMap]],
                   [isNil |-> FALSE,
                    val |-> [Requests |-> GoMap([k \in {"cpu"} |-> "100m"]),
                             Limits |-> GoMap([k \in {"cpu"} |-> "500m"])]]}
ArgLists == {<<"--enable-monitoring">>}

\* type MCPServerSpec
MCPServerSpec(name, ns, image, port, args, mounts, labels, annotations, resources) ==
    [Name |-> name, Namespace |-> ns, Image |-> image, Port |-> port,
     EnvVars |-> <<>>, Args |-> args, SecretMounts |-> mounts,
     ServiceAccount |-> "", Labels |-> labels, Annotations |-> annotations,
     Resources |-> resources]

\* the specs of the cluster specification: every key, few contents
NarrowSpecs ==
    {MCPServerSpec(n, ns, "img:v1", 8080, <<>>, <<>>, NilMap, NilMap, NilResources)
        : n \in ServerNames, ns \in Namespaces}
    \cup
    {MCPServerSpec(n, ns, "img:v2", 9000, <<>>, <<>>,
                   GoMap([k \in {MCPServerLabel} |-> "false"]), NilMap, NilResources)
        : n \in ServerNames, ns \in Namespaces}

\* the specs of the manifest specification: one key, every content
WideSpecs ==
    {MCPServerSpec("s1", "ns1", "img:v1", p, a, ms, l, an, r)
        : p \in Ports, a \in ArgLists, ms \in MountLists, l \in LabelMaps,
          an \in AnnotationMaps, r \in ResourceValues}

(***************************************************************************)
(* The spec-to-manifest translation.                                       *)
(***************************************************************************)
\* mergeLabels adding the required label only when the caller gave none
mergeLabels_KeepUserValue(userLabels) ==
    LET copied == [k \in DOMAIN userLabels.m |-> userLabels.m[k]]
    IN  [k \in DOMAIN copied \cup {MCPServerLabel} |->
            IF k \in DOMAIN copied THEN copied[k] ELSE "true"]

\* func (d *SimpleDeployer) mergeLabels
mergeLabels(userLabels) ==
    LET copied == [k \in DOMAIN userLabels.m |-> userLabels.m[k]]
    IN  [k \in DOMAIN copied \cup {MCPServerLabel} |->
            IF k = MCPServerLabel THEN "true" ELSE copied[k]]

\* getResources leaving the field out when the spec sets none
getResources_OmitWhenNil(resources) ==
    IF ~resources.isNil THEN resources.val
    ELSE [Requests |-> NilMap]

\* func (d *SimpleDeployer) getResources
getResources(resources) ==
    IF ~resources.isNil THEN resources.val
    ELSE [Requests |-> NilMap, Limits |-> NilMap]

\* the volume name counted from one
volumeName_OneBased(i) == "secret-" \o Itoa(i + 1)

\* volumeName := fmt.Sprintf("secret-%d", i), i the zero-based range index
volumeName(i) == "secret-" \o Itoa(i)

\* the volumes built by createDeployment's loop
BuildVolumes(secretMounts) ==
    [j \in 1..Len(secretMounts) |->
        [Name |-> volumeName(j - 1), SecretName |-> secretMounts[j].SecretName]]

\* the volume mounts built by createDeployment's loop
BuildVolumeMounts(secretMounts) ==
    [j \in 1..Len(secretMounts) |->
        [Name |-> volumeName(j - 1), MountPath |-> secretMounts[j].MountPath,
         ReadOnly |-> TRUE]]

\* the appsv1.Deployment literal of createDeployment
BuildDeployment(s) ==
    LET labels == mergeLabels(s.Labels)
    IN  [Name |-> s.Name, Namespace |-> s.Namespace,
         Labels |-> labels, Annotations |-> s.Annotations,
         Replicas |-> Replicas,
         Selector |-> labels,
         TemplateLabels |-> labels, TemplateAnnotations |-> s.Annotations,
         ServiceAccountName |-> s.ServiceAccount,
         Containers |-> << [Name |-> "mcp-server", Image |-> s.Image,
                            Ports |-> << [Name |-> "mcp", ContainerPort |-> s.Port,
                                          Protocol |-> "TCP"] >>,
                            Env |-> s.EnvVars, Args |-> s.Args,
                            VolumeMounts |-> BuildVolumeMounts(s.SecretMounts),
                            Resources |-> getResources(s.Resources)] >>,
         Volumes |-> BuildVolumes(s.SecretMounts),
         AvailableReplicas |-> 0, Conditions |-> <<>>]

\* createService selecting on the caller's labels as given
BuildService_UserSelector(s) ==
    LET labels == mergeLabels(s.Labels)
    IN  [Name |-> s.Name, Namespace |-> s.Namespace,
         Labels |-> labels, Annotations |-> s.Annotations,
         Selector |-> [k \in DOMAIN s.Labels.m |-> s.Labels.m[k]],
         Ports |-> << [Name |-> "mcp", Port |-> s.Port, TargetPort |-> s.Port,
                       Protocol |-> "TCP"] >>,
         Type |-> "ClusterIP"]

\* the corev1.Service literal of createService
BuildService(s) ==
    LET labels == mergeLabels(s.Labels)
    IN  [Name |-> s.Name, Namespace |-> s.Namespace,
         Labels |-> labels, Annotations |-> s.Annotations,
         Selector |-> labels,
         Ports |-> << [Name |-> "mcp", Port |-> s.Port, TargetPort |-> s.Port,
                       Protocol |-> "TCP"] >>,
         Type |-> "ClusterIP"]

(***************************************************************************)
(* State.                                                                  *)
(***************************************************************************)
VARIABLES
    deployments,  \* the cluster's Deployments: key <<namespace, name>> -> object
    services,     \* the cluster's Services: key <<namespace, name>> -> object
    deployed,     \* keys of the Deployments created by DeployMCPServer and not deleted
    spec,         \* the caller's MCPServerSpec, as it is after the last call
    last,         \* the last operation: arguments, API calls made, error, result
    wizard        \* the wizard: its position, what the last handler read and printed

vars == <<deployments, services, deployed, spec, last, wizard>>

EmptyStore == [k \in {} |-> 0]
Put(store, key, obj) == [k \in DOMAIN store \cup {key} |-> IF k = key THEN obj ELSE store[k]]
Remove(store, key) == [k \in DOMAIN store \ {key} |-> store[k]]

\* one call of a cluster API primitive, as the operation made it
Call(api, ns, name, err, obj) == [api |-> api, ns |-> ns, name |-> name, err |-> err, obj |-> obj]

ZeroSpec == MCPServerSpec("", "", "", 0, <<>>, <<>>, NilMap, NilMap, NilResources)

\* a Deployment some other client put in the cluster
ForeignKey == <<"ns1", ForeignName>>
ForeignLabels == {[k \in {MCPServerLabel} |-> "false"], [k \in {MCPServerLabel} |-> "true"]}
ForeignDeployment(labels) ==
    [BuildDeployment(MCPServerSpec(ForeignName, "ns1", "legacy:v1", 80, <<>>, <<>>,
                                   NilMap, NilMap, NilResources))
        EXCEPT !.Labels = labels, !.Selector = labels, !.TemplateLabels = labels]

NoOperation == [op |-> "none", ns |-> "", name |-> "", err |-> NoError,
                calls |-> <<>>, servers |-> <<>>]

\* the lines a handler read at its own prompts, as typed; <<>> where it read none
NoneRead == [name |-> <<>>, namespace |-> <<>>, image |-> <<>>, port |-> <<>>,
             confirm |-> <<>>]

\* the wizard at its menu, before any handler ran
WizardStart == [pc |-> "menu", handler |-> "none", namespace |-> "", output |-> <<>>,
                read |-> NoneRead, called |-> <<>>, eof |-> FALSE]

\* NewSimpleDeployer, on a cluster that may hold another client's Deployment
Init ==
    /\ deployments \in {EmptyStore} \cup
                       {Put(EmptyStore, ForeignKey, ForeignDeployment(l)) : l \in ForeignLabels}
    /\ services = EmptyStore
    /\ deployed = {}
    /\ last = NoOperation
    /\ spec = ZeroSpec
    /\ wizard = WizardStart

(***************************************************************************)
(* The cluster API.  Every primitive takes a fault flag: the call fails    *)
(* with a server or transport error and changes nothing.  A request that   *)
(* names an object in the empty namespace is rejected by the client.       *)
(***************************************************************************)
\* d.clientset.AppsV1().Deployments(ns).Create
DeploymentsCreate(obj, fault) ==
    LET key == <<obj.Namespace, obj.Name>>
    IN  IF obj.Namespace = NamespaceAll
        THEN [err |-> <<"EmptyNamespace">>, store |-> deployments]
        ELSE IF fault THEN [err |-> <<"ServerError">>, store |-> deployments]
        ELSE IF key \in DOMAIN deployments
             THEN [err |-> <<"AlreadyExists">>, store |-> deployments]
        ELSE [err |-> NoError, store |-> Put(deployments, key, obj)]

\* d.clientset.CoreV1().Services(ns).Create
ServicesCreate(obj, fault) ==
    LET key == <<obj.Namespace, obj.Name>>
    IN  IF obj.Namespace = NamespaceAll
        THEN [err |-> <<"EmptyNamespace">>, store |-> services]
        ELSE IF fault THEN [err |-> <<"ServerError">>, store |-> services]
        ELSE IF key \in DOMAIN services
             THEN [err |-> <<"AlreadyExists">>, store |-> services]
        ELSE [err |-> NoError, store |-> Put(services, key, obj)]

\* d.clientset.AppsV1().Deployments(ns).Delete
DeploymentsDelete(ns, name, fault) ==
    IF ns = NamespaceAll THEN [err |-> <<"EmptyNamespace">>, store |-> deployments]
    ELSE IF fault THEN [err |-> <<"ServerError">>, store |-> deployments]
    ELSE IF <<ns, name>> \notin DOMAIN deployments
         THEN [err |-> <<"NotFound">>, store |-> deployments]
    ELSE [err |-> NoError, store |-> Remove(deployments, <<ns, name>>)]

\* d.clientset.CoreV1().Services(ns).Delete
ServicesDelete(ns, name, fault) ==
    IF ns = NamespaceAll THEN [err |-> <<"EmptyNamespace">>, store |-> services]
    ELSE IF fault THEN [err |-> <<"ServerError">>, store |-> services]
    ELSE IF <<ns, name>> \notin DOMAIN services
         THEN [err |-> <<"NotFound">>, store |-> services]
    ELSE [err |-> NoError, store |-> Remove(services, <<ns, name>>)]

\* d.clientset.CoreV1().Services(ns).Get
ServicesGet(ns, name, fault) ==
    IF ns = NamespaceAll THEN [err |-> <<"EmptyNamespace">>, obj |-> <<>>]
    ELSE IF fault THEN [err |-> <<"ServerError">>, obj |-> <<>>]
    ELSE IF <<ns, name>> \notin DOMAIN services THEN [err |-> <<"NotFound">>, obj |-> <<>>]
    ELSE [err |-> NoError, obj |-> <<services[<<ns, name>>]>>]

\* the selector written with another spelling of the value
ListSelector_OtherValue == [key |-> MCPServerLabel, value |-> "True"]

\* LabelSelector: fmt.Sprintf("%s=true", MCPServerLabel)
ListSelector == [key |-> MCPServerLabel, value |-> "true"]

\* the API's equality label selector
Matches(labels, selector) ==
    selector.key \in DOMAIN labels /\ labels[selector.key] = selector.value

\* d.clientset.AppsV1().Deployments(ns).List: the matching objects, in key order
DeploymentsList(ns, selector, fault) ==
    IF fault THEN [err |-> <<"ServerError">>, items |-> <<>>]
    ELSE LET keys == SelectSeq(AllKeys, LAMBDA k :
                        /\ k \in DOMAIN deployments
                        /\ (ns = NamespaceAll \/ k[1] = ns)
                        /\ Matches(deployments[k].Labels, selector))
         IN  [err |-> NoError, items |-> [i \in 1..Len(keys) |-> deployments[keys[i]]]]

(***************************************************************************)
(* The operations of SimpleDeployer.                                       *)
(***************************************************************************)
\* func (d *SimpleDeployer) createDeployment
createDeployment(s, fault) ==
    LET deployment == BuildDeployment(s)
        r == DeploymentsCreate(deployment, fault)
    IN  [err   |-> IF r.err # NoError THEN Wrap("failed to create deployment", r.err)
                   ELSE NoError,
         store |-> r.store,
         call  |-> Call("Deployments.Create", s.Namespace, deployment.Name, r.err,
                        <<deployment>>)]

\* func (d *SimpleDeployer) createService
createService(s, fault) ==
    LET service == BuildService(s)
        r == ServicesCreate(service, fault)
    IN  [err   |-> IF r.err # NoError THEN Wrap("failed to create service", r.err)
                   ELSE NoError,
         store |-> r.store,
         call  |-> Call("Services.Create", s.Namespace, service.Name, r.err, <<service>>)]

\* DeployMCPServer taking the deployment back when the service cannot be created
DeployMCPServer_RollBack(s) ==
    \E depFault \in BOOLEAN :
        LET dep == createDeployment(s, depFault)
        IN  /\ spec' = s
            /\ IF dep.err # NoError
               THEN /\ UNCHANGED <<deployments, services, deployed>>
                    /\ last' = [op |-> "deploy", ns |-> s.Namespace, name |-> s.Name,
                                err |-> Wrap("failed to create deployment", dep.err),
                                calls |-> <<dep.call>>, servers |-> <<>>]
               ELSE \E svcFault \in BOOLEAN :
                    LET svc == createService(s, svcFault)
                    IN  /\ services' = svc.store
                        /\ IF svc.err # NoError
                           THEN /\ UNCHANGED <<deployments, deployed>>
                                /\ last' = [op |-> "deploy", ns |-> s.Namespace,
                                            name |-> s.Name,
                                            err |-> Wrap("failed to create service", svc.err),
                                            calls |-> <<dep.call, svc.call,
                                                Call("Deployments.Delete", s.Namespace,
                                                     s.Name, NoError, <<>>)>>,
                                            servers |-> <<>>]
                           ELSE /\ deployments' = dep.store
                                /\ deployed' = deployed \cup {<<s.Namespace, s.Name>>}
                                /\ last' = [op |-> "deploy", ns |-> s.Namespace,
                                            name |-> s.Name, err |-> NoError,
                                            calls |-> <<dep.call, svc.call>>,
                                            servers |-> <<>>]

\* DeployMCPServer going on to the service when the deployment is already there
DeployMCPServer_TolerateAlreadyExists(s) ==
    \E depFault \in BOOLEAN :
        LET dep == createDeployment(s, depFault)
        IN  /\ spec' = s
            /\ deployments' = dep.store
            /\ IF dep.call.err \notin {NoError, <<"AlreadyExists">>}
               THEN /\ UNCHANGED <<services, deployed>>
                    /\ last' = [op |-> "deploy", ns |-> s.Namespace, name |-> s.Name,
                                err |-> Wrap("failed to create deployment", dep.err),
                                calls |-> <<dep.call>>, servers |-> <<>>]
               ELSE \E svcFault \in BOOLEAN :
                    LET svc == createService(s, svcFault)
                    IN  /\ deployed' = IF dep.err = NoError
                                       THEN deployed \cup {<<s.Namespace, s.Name>>}
                                       ELSE deployed
                        /\ services' = svc.store
                        /\ last' = [op |-> "deploy", ns |-> s.Namespace, name |-> s.Name,
                                    err |-> IF svc.err # NoError
                                            THEN Wrap("failed to create service", svc.err)
                                            ELSE NoError,
                                    calls |-> <<dep.call, svc.call>>, servers |-> <<>>]

\* func (d *SimpleDeployer) DeployMCPServer
DeployMCPServer(s) ==
    \E depFault \in BOOLEAN :
        LET dep == createDeployment(s, depFault)
        IN  /\ spec' = s
            /\ deployments' = dep.store
            /\ IF dep.err # NoError
               THEN /\ UNCHANGED <<services, deployed>>
                    /\ last' = [op |-> "deploy", ns |-> s.Namespace, name |-> s.Name,
                                err |-> Wrap("failed to create deployment", dep.err),
                                calls |-> <<dep.call>>, servers |-> <<>>]
               ELSE \E svcFault \in BOOLEAN :
                    LET svc == createService(s, svcFault)
                    IN  /\ deployed' = deployed \cup {<<s.Namespace, s.Name>>}
                        /\ services' = svc.store
                        /\ last' = [op |-> "deploy", ns |-> s.Namespace, name |-> s.Name,
                                    err |-> IF svc.err # NoError
                                            THEN Wrap("failed to create service", svc.err)
                                            ELSE NoError,
                                    calls |-> <<dep.call, svc.call>>, servers |-> <<>>]

\* fmt.Sprintf("%s: %s - %s", condition.Type, condition.Status, condition.Message)
FormatCondition(c) == c.Type \o ": " \o c.Status \o " - " \o c.Message

\* fmt.Sprintf("%s:%d", service.Name, service.Spec.Ports[0].Port)
FormatEndpoint(service) == service.Name \o ":" \o Itoa(service.Ports[1].Port)

\* the loop body looking the service up whether or not the deployment is available
ProjectStatus_NoAvailableGuard(deployment, namespace, getFault) ==
    LET available == deployment.AvailableReplicas > 0
        get == ServicesGet(namespace, deployment.Name, getFault)
    IN  [Name        |-> deployment.Name,
         Namespace   |-> deployment.Namespace,
         Available   |-> available,
         Labels      |-> deployment.Labels,
         Annotations |-> deployment.Annotations,
         Image       |-> IF Len(deployment.Containers) > 0
                         THEN deployment.Containers[1].Image ELSE "",
         Endpoint    |-> IF get.err = NoError /\ Len(get.obj[1].Ports) > 0
                         THEN FormatEndpoint(get.obj[1]) ELSE "",
         Conditions  |-> [i \in 1..Len(deployment.Conditions) |->
                             FormatCondition(deployment.Conditions[i])]]

\* the body of ListMCPServers' loop: one deployment's MCPServerStatus
ProjectStatus(deployment, namespace, getFault) ==
    LET available == deployment.AvailableReplicas > 0
        get == ServicesGet(namespace, deployment.Name, getFault)
    IN  [Name        |-> deployment.Name,
         Namespace   |-> deployment.Namespace,
         Available   |-> available,
         Labels      |-> deployment.Labels,
         Annotations |-> deployment.Annotations,
         Image       |-> IF Len(deployment.Containers) > 0
                         THEN deployment.Containers[1].Image ELSE "",
         Endpoint    |-> IF available /\ get.err = NoError /\ Len(get.obj[1].Ports) > 0
                         THEN FormatEndpoint(get.obj[1]) ELSE "",
         Conditions  |-> [i \in 1..Len(deployment.Conditions) |->
                             FormatCondition(deployment.Conditions[i])]]

\* the deployments ListMCPServers looks the service up for
Looked(items) == SelectSeq(items, LAMBDA d : d.AvailableReplicas > 0)

\* the Services.Get calls ListMCPServers makes, in order
GetCalls(items, namespace, getFaults) ==
    LET looked == Looked(items)
    IN  [i \in 1..Len(looked) |->
            Call("Services.Get", namespace, looked[i].Name,
                 ServicesGet(namespace, looked[i].Name,
                             <<looked[i].Namespace, looked[i].Name>> \in getFaults).err,
                 <<>>)]

\* ListMCPServers giving up when a service lookup fails
ListMCPServers_FailOnGetError(namespace) ==
    \E listFault \in BOOLEAN :
        LET r == DeploymentsList(namespace, ListSelector, listFault)
            listCall == Call("Deployments.List", namespace, "", r.err, <<>>)
            looked == Looked(r.items)
        IN  /\ UNCHANGED <<deployments, services, deployed, spec>>
            /\ IF r.err # NoError
               THEN last' = [op |-> "list", ns |-> namespace, name |-> "",
                             err |-> Wrap("failed to list deployments", r.err),
                             calls |-> <<listCall>>, servers |-> <<>>]
               ELSE \E getFaults \in SUBSET {<<looked[i].Namespace, looked[i].Name>> :
                                               i \in 1..Len(looked)} :
                    LET gets == GetCalls(r.items, namespace, getFaults)
                        failed == {i \in 1..Len(gets) : gets[i].err # NoError}
                    IN  last' = [op |-> "list", ns |-> namespace, name |-> "",
                                 err |-> IF failed # {}
                                         THEN Wrap("failed to get service",
                                                   gets[CHOOSE i \in failed : TRUE].err)
                                         ELSE NoError,
                                 calls |-> <<listCall>> \o gets,
                                 servers |-> IF failed # {} THEN <<>>
                                             ELSE [i \in 1..Len(r.items) |->
                                     ProjectStatus(r.items[i], namespace,
                                         <<r.items[i].Namespace, r.items[i].Name>>
                                             \in getFaults)]]

\* func (d *SimpleDeployer) ListMCPServers
ListMCPServers(namespace) ==
    \E listFault \in BOOLEAN :
        LET r == DeploymentsList(namespace, ListSelector, listFault)
            listCall == Call("Deployments.List", namespace, "", r.err, <<>>)
            looked == Looked(r.items)
        IN  /\ UNCHANGED <<deployments, services, deployed, spec>>
            /\ IF r.err # NoError
               THEN last' = [op |-> "list", ns |-> namespace, name |-> "",
                             err |-> Wrap("failed to list deployments", r.err),
                             calls |-> <<listCall>>, servers |-> <<>>]
               ELSE \E getFaults \in SUBSET {<<looked[i].Namespace, looked[i].Name>> :
                                               i \in 1..Len(looked)} :
                    last' = [op |-> "list", ns |-> namespace, name |-> "",
                             err |-> NoError,
                             calls |-> <<listCall>> \o GetCalls(r.items, namespace, getFaults),
                             servers |-> [i \in 1..Len(r.items) |->
                                 ProjectStatus(r.items[i], namespace,
                                     <<r.items[i].Namespace, r.items[i].Name>> \in getFaults)]]

\* DeleteMCPServer going on to the service after a failed deployment delete
DeleteMCPServer_IgnoreDeploymentError(namespace, name) ==
    \E depFault \in BOOLEAN, svcFault \in BOOLEAN :
        LET dep == DeploymentsDelete(namespace, name, depFault)
            depCall == Call("Deployments.Delete", namespace, name, dep.err, <<>>)
            svc == ServicesDelete(namespace, name, svcFault)
            svcCall == Call("Services.Delete", namespace, name, svc.err, <<>>)
        IN  /\ UNCHANGED spec
            /\ deployments' = dep.store
            /\ deployed' = IF dep.err = NoError THEN deployed \ {<<namespace, name>>}
                           ELSE deployed
            /\ services' = svc.store
            /\ last' = [op |-> "delete", ns |-> namespace, name |-> name,
                        err |-> IF dep.err # NoError
                                THEN Wrap("failed to delete deployment", dep.err)
                                ELSE IF svc.err # NoError
                                THEN Wrap("failed to delete service", svc.err)
                                ELSE NoError,
                        calls |-> <<depCall, svcCall>>, servers |-> <<>>]

\* DeleteMCPServer dropping the error of the service delete
DeleteMCPServer_DropServiceError(namespace, name) ==
    \E depFault \in BOOLEAN :
        LET dep == DeploymentsDelete(namespace, name, depFault)
            depCall == Call("Deployments.Delete", namespace, name, dep.err, <<>>)
        IN  /\ UNCHANGED spec
            /\ deployments' = dep.store
            /\ IF dep.err # NoError
               THEN /\ UNCHANGED <<services, deployed>>
                    /\ last' = [op |-> "delete", ns |-> namespace, name |-> name,
                                err |-> Wrap("failed to delete deployment", dep.err),
                                calls |-> <<depCall>>, servers |-> <<>>]
               ELSE \E svcFault \in BOOLEAN :
                    LET svc == ServicesDelete(namespace, name, svcFault)
                        svcCall == Call("Services.Delete", namespace, name, svc.err, <<>>)
                    IN  /\ deployed' = deployed \ {<<namespace, name>>}
                        /\ services' = svc.store
                        /\ last' = [op |-> "delete", ns |-> namespace, name |-> name,
                                    err |-> NoError,
                                    calls |-> <<depCall, svcCall>>, servers |-> <<>>]

\* DeleteMCPServer taking a missing deployment for a deleted one
DeleteMCPServer_TolerateNotFound(namespace, name) ==
    \E depFault \in BOOLEAN :
        LET dep == DeploymentsDelete(namespace, name, depFault)
            depCall == Call("Deployments.Delete", namespace, name, dep.err, <<>>)
        IN  /\ UNCHANGED spec
            /\ deployments' = dep.store
            /\ IF dep.err \notin {NoError, <<"NotFound">>}
               THEN /\ UNCHANGED <<services, deployed>>
                    /\ last' = [op |-> "delete", ns |-> namespace, name |-> name,
                                err |-> Wrap("failed to delete deployment", dep.err),
                                calls |-> <<depCall>>, servers |-> <<>>]
               ELSE \E svcFault \in BOOLEAN :
                    LET svc == ServicesDelete(namespace, name, svcFault)
                        svcCall == Call("Services.Delete", namespace, name, svc.err, <<>>)
                    IN  /\ deployed' = deployed \ {<<namespace, name>>}
                        /\ services' = svc.store
                        /\ last' = [op |-> "delete", ns |-> namespace, name |-> name,
                                    err |-> IF svc.err # NoError
                                            THEN Wrap("failed to delete service", svc.err)
                                            ELSE NoError,
                                    calls |-> <<depCall, svcCall>>, servers |-> <<>>]

\* func (d *SimpleDeployer) DeleteMCPServer
DeleteMCPServer(namespace, name) ==
    \E depFault \in BOOLEAN :
        LET dep == DeploymentsDelete(namespace, name, depFault)
            depCall == Call("Deployments.Delete", namespace, name, dep.err, <<>>)
        IN  /\ UNCHANGED spec
            /\ deployments' = dep.store
            /\ IF dep.err # NoError
               THEN /\ UNCHANGED <<services, deployed>>
                    /\ last' = [op |-> "delete", ns |-> namespace, name |-> name,
                                err |-> Wrap("failed to delete deployment", dep.err),
                                calls |-> <<depCall>>, servers |-> <<>>]
               ELSE \E svcFault \in BOOLEAN :
                    LET svc == ServicesDelete(namespace, name, svcFault)
                        svcCall == Call("Services.Delete", namespace, name, svc.err, <<>>)
                    IN  /\ deployed' = deployed \ {<<namespace, name>>}
                        /\ services' = svc.store
                        /\ last' = [op |-> "delete", ns |-> namespace, name |-> name,
                                    err |-> IF svc.err # NoError
                                            THEN Wrap("failed to delete service", svc.err)
                                            ELSE NoError,
                                    calls |-> <<depCall, svcCall>>, servers |-> <<>>]

(***************************************************************************)
(* The cluster's deployment controller maintains the status that           *)
(* ListMCPServers reads: the available replicas and the conditions.        *)
(***************************************************************************)
AvailableCondition(up) ==
    [Type |-> "Available", Status |-> IF up THEN "True" ELSE "False",
     Message |-> IF up THEN "Deployment has minimum availability."
                 ELSE "Deployment does not have minimum availability."]

\* the pods of a Deployment made by DeployMCPServer become ready
DeploymentStatusUpdate(key) ==
    /\ key \in DOMAIN deployments
    /\ key \in deployed
    /\ deployments[key].AvailableReplicas = 0
    /\ deployments' = [deployments EXCEPT
           ![key].AvailableReplicas = deployments[key].Replicas,
           ![key].Conditions = <<AvailableCondition(TRUE)>>]
    /\ UNCHANGED <<services, deployed, spec, last, wizard>>

(***************************************************************************)
(* Specifications.                                                         *)
(***************************************************************************)
Deploy == \E s \in NarrowSpecs : DeployMCPServer(s) /\ UNCHANGED wizard
List == \E namespace \in Namespaces \cup {NamespaceAll} :
            ListMCPServers(namespace) /\ UNCHANGED wizard
Delete == \E namespace \in Namespaces \cup {NamespaceAll}, name \in Names :
              DeleteMCPServer(namespace, name) /\ UNCHANGED wizard
StatusUpdate == \E key \in KeySet : DeploymentStatusUpdate(key)

Next == Deploy \/ List \/ Delete \/ StatusUpdate

\* the cluster specification: any sequence of operations on a few specs
Spec == Init /\ [][Next]_vars

\* the manifest specification: one spec drawn from every content, then
\* deployed, listed and deleted
InitManifest ==
    /\ deployments = EmptyStore
    /\ services = EmptyStore
    /\ deployed = {}
    /\ last = NoOperation
    /\ spec \in WideSpecs
    /\ wizard = WizardStart

DeployInput == DeployMCPServer(spec) /\ UNCHANGED wizard
ListInput == ListMCPServers(spec.Namespace) /\ UNCHANGED wizard
DeleteInput == DeleteMCPServer(spec.Namespace, spec.Name) /\ UNCHANGED wizard

NextManifest == DeployInput \/ ListInput \/ DeleteInput

SpecManifest == InitManifest /\ [][NextManifest]_vars

(***************************************************************************)
(* The wizard (cmd/wizard): text read from standard input.  A line is the  *)
(* sequence of its characters, as bufio.Reader.ReadString('\n') returns    *)
(* it: with its newline, or what is left (nothing, at the end of input).   *)
(***************************************************************************)
Whitespace == {" ", "\t", "\n", "\r"}
UpperCase == <<"A", "B", "C", "D", "E", "F", "G", "H", "I", "J", "K", "L", "M",
               "N", "O", "P", "Q", "R", "S", "T", "U", "V", "W", "X", "Y", "Z">>
LowerCase == <<"a", "b", "c", "d", "e", "f", "g", "h", "i", "j", "k", "l", "m",
               "n", "o", "p", "q", "r", "s", "t", "u", "v", "w", "x", "y", "z">>

\* the Go string of a sequence of characters
RECURSIVE GoString(_)
GoString(chars) == IF chars = <<>> THEN "" ELSE Head(chars) \o GoString(Tail(chars))

\* strings.TrimSpace
RECURSIVE TrimLeft(_)
TrimLeft(chars) == IF chars # <<>> /\ Head(chars) \in Whitespace THEN TrimLeft(Tail(chars))
                   ELSE chars
RECURSIVE TrimRight(_)
TrimRight(chars) == IF chars # <<>> /\ chars[Len(chars)] \in Whitespace
                    THEN TrimRight(SubSeq(chars, 1, Len(chars) - 1))
                    ELSE chars
TrimSpace(chars) == TrimRight(TrimLeft(chars))

\* strings.ToLower
ToLower(chars) ==
    [i \in 1..Len(chars) |->
        IF \E j \in 1..Len(UpperCase) : UpperCase[j] = chars[i]
        THEN LowerCase[CHOOSE j \in 1..Len(UpperCase) : UpperCase[j] = chars[i]]
        ELSE chars[i]]

\* reader.ReadString('\n'), its error ignored: the next line and the input left
ReadString(in) == IF in = <<>> THEN [line |-> <<>>, rest |-> <<>>]
                  ELSE [line |-> Head(in), rest |-> Tail(in)]

\* a trimmed line, as a Go string
ReadTrimmed(in) == [text |-> GoString(TrimSpace(ReadString(in).line)),
                    rest |-> ReadString(in).rest]

\* response = strings.ToLower(strings.TrimSpace(response)); response == "yes" || "y"
IsYes(line) == LET response == GoString(ToLower(TrimSpace(line)))
               IN  response = "yes" \/ response = "y"

\* strconv.ParseInt(s, 10, 32) of a trimmed line; -1 stands for a magnitude out of
\* range (the one magnitude of int32 above MaxInt32, that of -2^31, counted with them)
MaxInt32 == 2147483647
IsDigit(c) == \E i \in 1..10 : DigitStr[i] = c
DigitValue(c) == (CHOOSE i \in 1..10 : DigitStr[i] = c) - 1
RECURSIVE DigitsValue(_, _)
DigitsValue(chars, acc) ==
    IF chars = <<>> \/ acc = -1 THEN acc
    ELSE IF acc > (MaxInt32 - DigitValue(Head(chars))) \div 10 THEN -1
    ELSE DigitsValue(Tail(chars), 10 * acc + DigitValue(Head(chars)))
ParseInt(chars) ==
    LET signed == chars # <<>> /\ Head(chars) \in {"+", "-"}
        digits == IF signed THEN Tail(chars) ELSE chars
        magnitude == DigitsValue(digits, 0)
    IN  IF digits = <<>> \/ \E i \in 1..Len(digits) : ~IsDigit(digits[i])
        THEN [ok |-> FALSE, value |-> 0]
        ELSE IF magnitude = -1 THEN [ok |-> FALSE, value |-> 0]
        ELSE [ok |-> TRUE,
              value |-> IF signed /\ Head(chars) = "-" THEN 0 - magnitude ELSE magnitude]

\* func promptForArgs: the loop
RECURSIVE ArgsLoop(_, _)
ArgsLoop(in, args) ==
    LET arg == ReadTrimmed(in)
    IN  IF arg.text = "" THEN [val |-> args, rest |-> arg.rest]
        ELSE ArgsLoop(arg.rest, Append(args, arg.text))

\* func promptForArgs
promptForArgs(in) ==
    IF ~IsYes(ReadString(in).line) THEN [val |-> <<>>, rest |-> ReadString(in).rest]
    ELSE ArgsLoop(ReadString(in).rest, <<>>)

\* func promptForSecretMounts: the loop
RECURSIVE SecretMountsLoop(_, _)
SecretMountsLoop(in, secretMounts) ==
    LET secretName == ReadTrimmed(in)
        mountPath == ReadTrimmed(secretName.rest)
    IN  IF secretName.text = "" THEN [val |-> secretMounts, rest |-> secretName.rest]
        ELSE IF mountPath.text = "" THEN SecretMountsLoop(mountPath.rest, secretMounts)
        ELSE SecretMountsLoop(mountPath.rest,
                 Append(secretMounts, [SecretName |-> secretName.text,
                                       MountPath |-> mountPath.text]))

\* func promptForSecretMounts
promptForSecretMounts(in) ==
    IF ~IsYes(ReadString(in).line) THEN [val |-> <<>>, rest |-> ReadString(in).rest]
    ELSE SecretMountsLoop(ReadString(in).rest, <<>>)

\* func promptForKeyValuePairs: the loop
RECURSIVE KeyValuePairsLoop(_, _)
KeyValuePairsLoop(in, pairs) ==
    LET key == ReadTrimmed(in)
        value == ReadTrimmed(key.rest)
    IN  IF key.text = "" THEN [val |-> GoMap(pairs), rest |-> key.rest]
        ELSE KeyValuePairsLoop(value.rest,
                 [k \in DOMAIN pairs \cup {key.text} |->
                     IF k = key.text THEN value.text ELSE pairs[k]])

\* func promptForKeyValuePairs
promptForKeyValuePairs(in) ==
    IF ~IsYes(ReadString(in).line)
    THEN [val |-> GoMap(<<>>), rest |-> ReadString(in).rest]
    ELSE KeyValuePairsLoop(ReadString(in).rest, <<>>)

\* func promptForEnvVars: the loop
RECURSIVE EnvVarsLoop(_, _)
EnvVarsLoop(in, envVars) ==
    LET name == ReadTrimmed(in)
        varType == GoString(ToLower(TrimSpace(ReadString(name.rest).line)))
        afterType == ReadString(name.rest).rest
        secretName == ReadTrimmed(afterType)
        secretKey == ReadTrimmed(secretName.rest)
        value == ReadTrimmed(afterType)
    IN  IF name.text = "" THEN [val |-> envVars, rest |-> name.rest]
        ELSE IF varType = "secret"
        THEN EnvVarsLoop(secretKey.rest,
                 Append(envVars, [Name |-> name.text, Value |-> "",
                                  ValueFrom |-> <<[SecretName |-> secretName.text,
                                                   Key |-> secretKey.text]>>]))
        ELSE EnvVarsLoop(value.rest,
                 Append(envVars, [Name |-> name.text, Value |-> value.text,
                                  ValueFrom |-> <<>>]))

\* func promptForEnvVars
promptForEnvVars(in) ==
    IF ~IsYes(ReadString(in).line) THEN [val |-> <<>>, rest |-> ReadString(in).rest]
    ELSE EnvVarsLoop(ReadString(in).rest, <<>>)

\* resource.ParseQuantity accepts these texts among the ones entered
ValidQuantities == {"100m", "500m", "128Mi", "256Mi"}

\* func parseResourceQuantity
parseResourceQuantity(value) ==
    IF value \in ValidQuantities THEN [ok |-> TRUE, quantity |-> value]
    ELSE [ok |-> FALSE, quantity |-> ""]

\* promptForResources: one quantity prompt, its entry added to the list when valid
PromptQuantity(in, list, resourceName) ==
    LET entered == ReadTrimmed(in)
        parsed == parseResourceQuantity(entered.text)
    IN  [val  |-> IF entered.text # "" /\ parsed.ok
                  THEN [k \in DOMAIN list \cup {resourceName} |->
                           IF k = resourceName THEN parsed.quantity ELSE list[k]]
                  ELSE list,
         rest |-> entered.rest]

\* func promptForResources
promptForResources(in) ==
    LET cpuRequest == PromptQuantity(ReadString(in).rest, <<>>, "cpu")
        memRequest == PromptQuantity(cpuRequest.rest, cpuRequest.val, "memory")
        cpuLimit == PromptQuantity(memRequest.rest, <<>>, "cpu")
        memLimit == PromptQuantity(cpuLimit.rest, cpuLimit.val, "memory")
    IN  IF ~IsYes(ReadString(in).line)
        THEN [val |-> NilResources, rest |-> ReadString(in).rest]
        ELSE IF DOMAIN memRequest.val = {} /\ DOMAIN memLimit.val = {}
        THEN [val |-> NilResources, rest |-> memLimit.rest]
        ELSE [val |-> [isNil |-> FALSE,
                       val |-> [Requests |-> GoMap(memRequest.val),
                                Limits |-> GoMap(memLimit.val)]],
              rest |-> memLimit.rest]

\* the port prompt: an empty entry is 8080, anything else goes through ParseInt
promptForPort_ZeroWhenEmpty(portStr) ==
    IF portStr = <<>> THEN [ok |-> TRUE, value |-> 0] ELSE ParseInt(portStr)

\* func deployServer: the port prompt
promptForPort(portStr) ==
    IF portStr = <<>> THEN [ok |-> TRUE, value |-> 8080] ELSE ParseInt(portStr)

\* the namespace prompt that keeps an empty entry
defaultNamespace_KeepEmpty(namespace) == namespace

\* if namespace == "" { namespace = "default" }
defaultNamespace(namespace) == IF namespace = "" THEN "default" ELSE namespace

\* the confirmation that takes every answer but "no"
Confirmed_UnlessNo(line) == GoString(ToLower(TrimSpace(line))) # "no"

\* confirm != "yes" && confirm != "y" is false
Confirmed(line) == IsYes(line)

\* func deployServer, up to its call of DeployMCPServer: the spec it built, what it
\* printed, the lines it read, and whether it goes on to deploy
deployServerPrompts(in) ==
    LET nameLine == ReadString(in)
        name == ReadTrimmed(in)
        namespaceLine == ReadString(name.rest)
        namespace == ReadTrimmed(name.rest)
        imageLine == ReadString(namespace.rest)
        image == ReadTrimmed(namespace.rest)
        portLine == ReadString(image.rest)
        port == promptForPort(TrimSpace(portLine.line))
        envVars == promptForEnvVars(portLine.rest)
        args == promptForArgs(envVars.rest)
        secretMounts == promptForSecretMounts(args.rest)
        serviceAccount == ReadTrimmed(secretMounts.rest)
        labels == promptForKeyValuePairs(serviceAccount.rest)
        annotations == promptForKeyValuePairs(labels.rest)
        resources == promptForResources(annotations.rest)
        confirm == ReadString(resources.rest)
        built == [MCPServerSpec(name.text, defaultNamespace(namespace.text), image.text,
                                port.value, args.val, secretMounts.val, labels.val,
                                annotations.val, resources.val)
                    EXCEPT !.EnvVars = envVars.val, !.ServiceAccount = serviceAccount.text]
        readName == [NoneRead EXCEPT !.name = nameLine.line]
        readImage == [readName EXCEPT !.namespace = namespaceLine.line,
                                      !.image = imageLine.line]
        readPort == [readImage EXCEPT !.port = portLine.line]
        readAll == [readPort EXCEPT !.confirm = confirm.line]
    IN  IF name.text = ""
        THEN [proceed |-> FALSE, spec |-> ZeroSpec, output |-> <<"Error: Name is required">>,
              read |-> readName, rest |-> name.rest]
        ELSE IF image.text = ""
        THEN [proceed |-> FALSE, spec |-> ZeroSpec,
              output |-> <<"Error: Image is required">>,
              read |-> readImage, rest |-> image.rest]
        ELSE IF ~port.ok
        THEN [proceed |-> FALSE, spec |-> ZeroSpec,
              output |-> <<"Error: Invalid port number">>,
              read |-> readPort, rest |-> portLine.rest]
        ELSE IF ~Confirmed(confirm.line)
        THEN [proceed |-> FALSE, spec |-> built,
              output |-> <<"=== Deployment Summary ===", "Deployment cancelled.">>,
              read |-> readAll, rest |-> confirm.rest]
        ELSE [proceed |-> TRUE, spec |-> built,
              output |-> <<"=== Deployment Summary ===">>,
              read |-> readAll, rest |-> confirm.rest]

\* func deleteServer, from the name prompt to its call of DeleteMCPServer
deleteServerPrompts(in) ==
    LET nameLine == ReadString(in)
        name == ReadTrimmed(in)
        confirm == ReadString(name.rest)
        readName == [NoneRead EXCEPT !.name = nameLine.line]
        readAll == [readName EXCEPT !.confirm = confirm.line]
    IN  IF name.text = ""
        THEN [proceed |-> FALSE, name |-> "", output |-> <<"Error: Name is required">>,
              read |-> readName, rest |-> name.rest]
        ELSE IF ~Confirmed(confirm.line)
        THEN [proceed |-> FALSE, name |-> name.text,
              output |-> <<"WARNING: This will permanently delete",
                           "Deletion cancelled.">>,
              read |-> readAll, rest |-> confirm.rest]
        ELSE [proceed |-> TRUE, name |-> name.text,
              output |-> <<"WARNING: This will permanently delete">>,
              read |-> readAll, rest |-> confirm.rest]

(***************************************************************************)
(* What the user types.  One turn of the menu loop reads the choice and    *)
(* the lines its handler asks for; the input may end at any line, and      *)
(* every read after the end returns the empty string.                      *)
(***************************************************************************)
ChoiceLines == {<<"1", "\n">>, <<"2", "\n">>, <<" ", "3", " ", "\n">>, <<"4", "\n">>, <<"5", "\n">>, <<"\n">>}
NameLines == {<<"s", "1", "\n">>, <<" ", "\n">>}
NamespaceLines == {<<"\n">>, <<"n", "s", "1", "\n">>}
ImageLines == {<<"i", "m", "g", ":", "v", "1", "\n">>, <<"\n">>}
PortLines == {<<"\n">>, <<"0", "\n">>, <<"x", "\n">>}
ConfirmLines == {<<"y", "e", "s", "\n">>, <<" ", "Y", " ", "\n">>, <<"n", "o", "\n">>, <<"\n">>, <<"y", "e", "s", " ", "p", "l", "e", "a", "s", "e", "\n">>}
No == <<"n", "o", "\n">>
Enter == <<"\n">>

\* every optional part declined
Plain(n, ns, im, p, c) == <<n, ns, im, p, No, No, No, Enter, No, No, No, c>>
PlainScripts ==
    {Plain(n, ns, im, <<"\n">>, <<"y", "e", "s", "\n">>)
        : n \in NameLines, ns \in NamespaceLines, im \in ImageLines}
    \cup
    {Plain(<<"s", "1", "\n">>, <<"n", "s", "1", "\n">>, <<"i", "m", "g", ":", "v", "1", "\n">>, p, c) : p \in PortLines, c \in ConfirmLines}

\* every optional part entered
RichScript ==
    <<<<"s", "1", "\n">>, <<"n", "s", "1", "\n">>, <<"i", "m", "g", ":", "v", "1", "\n">>, <<"9", "0", "0", "0", "\n">>,
      <<"y", "\n">>, <<"T", "O", "K", "E", "N", "\n">>, <<"S", "e", "c", "r", "e", "t", "\n">>, <<"s", "e", "c", "1", "\n">>, <<"k", "e", "y", "\n">>,
               <<"M", "O", "D", "E", "\n">>, <<"v", "a", "l", "u", "e", "\n">>, <<" ", "f", "a", "s", "t", " ", "\n">>, Enter,
      <<"y", "e", "s", "\n">>, <<"-", "-", "e", "n", "a", "b", "l", "e", "-", "m", "o", "n", "i", "t", "o", "r", "i", "n", "g", "\n">>, Enter,
      <<"Y", "\n">>, <<"s", "e", "c", "1", "\n">>, Enter, <<"s", "e", "c", "2", "\n">>, <<"/", "a", "\n">>, Enter,
      <<"s", "a", "1", "\n">>,
      <<"y", "\n">>, <<"a", "p", "p", "\n">>, <<"x", "\n">>, Enter,
      <<"y", "\n">>, <<"d", "e", "s", "c", "r", "i", "p", "t", "i", "o", "n", "\n">>, <<"d", "\n">>, Enter,
      <<"y", "\n">>, <<"1", "0", "0", "m", "\n">>, <<"l", "o", "t", "s", "\n">>, Enter, <<"2", "5", "6", "M", "i", "\n">>,
      <<"Y", "E", "S", "\n">>>>

Prefixes(scripts) == UNION {{SubSeq(s, 1, k) : k \in 0..Len(s)} : s \in scripts}
DeployScripts == Prefixes(PlainScripts \cup {RichScript})
ListScripts == Prefixes({<<ns>> : ns \in NamespaceLines})
DeleteScripts == Prefixes({<<n, c>> : n \in NameLines \cup {<<"l", "e", "g", "a", "c", "y", "\n">>}, c \in ConfirmLines})

\* a line no script holds: a handler that reads it has read past the end of the input
Sentinel == <<"#">>

\* the choice lines, read by the menu: the input goes on after each of them
Choices == {ReadTrimmed(<<c>>).text : c \in ChoiceLines}

\* the namespace prompt of listServers and of deleteServer
namespacePrompt(in) ==
    [namespace |-> defaultNamespace(ReadTrimmed(in).text),
     read |-> [NoneRead EXCEPT !.namespace = ReadString(in).line],
     rest |-> ReadTrimmed(in).rest]

\* a handler's prompts on each script that it reads to its last line and no further,
\* or to its end and further (ended)
ListTurns ==
    {[r |-> namespacePrompt(s), ended |-> namespacePrompt(s \o <<Sentinel>>).rest = <<>>]
        : s \in {t \in ListScripts : namespacePrompt(t).rest = <<>>}}
DeployTurns ==
    {[r |-> deployServerPrompts(s),
      ended |-> deployServerPrompts(s \o <<Sentinel>>).rest = <<>>]
        : s \in {t \in DeployScripts : deployServerPrompts(t).rest = <<>>}}
DeleteTurns ==
    {[r |-> deleteServerPrompts(s),
      ended |-> deleteServerPrompts(s \o <<Sentinel>>).rest = <<>>]
        : s \in {t \in DeleteScripts : deleteServerPrompts(t).rest = <<>>}}
\* deleteServer's prompts when the input has ended before them
DeleteTurnsAtEnd == {[r |-> deleteServerPrompts(<<>>), ended |-> TRUE]}

(***************************************************************************)
(* The wizard's menu loop (func main) and its handlers.  When the input    *)
(* has ended the choice read is empty, which is the default case.          *)
(***************************************************************************)
\* the wizard back at the menu after a handler
Returned(handler, namespace, output, read, called, ended) ==
    [pc |-> "menu", handler |-> handler, namespace |-> namespace, output |-> output,
     read |-> read, called |-> called, eof |-> ended]

\* a turn that calls no operation of the deployer: the cluster is as it was, and the
\* record of the last operation is empty
NoCall == last' = NoOperation /\ UNCHANGED <<deployments, services, deployed, spec>>

\* the menu reads a choice
Chosen(choice) == wizard.pc = "menu" /\ ~wizard.eof /\ choice \in Choices

\* case "1": func listServers
WizardList ==
    /\ Chosen("1")
    /\ \E turn \in ListTurns :
          /\ ListMCPServers(turn.r.namespace)
          /\ wizard' = Returned("list", turn.r.namespace,
                           IF last'.err # NoError THEN <<"Error listing servers">>
                           ELSE IF Len(last'.servers) = 0
                                THEN <<"No MCP servers found">>
                           ELSE <<"=== MCP Servers in namespace">>,
                           turn.r.read, <<"ListMCPServers">>, turn.ended)

\* case "2": func deployServer
WizardDeploy ==
    /\ Chosen("2")
    /\ \E turn \in DeployTurns :
          LET r == turn.r
          IN  IF r.proceed
              THEN /\ DeployMCPServer(r.spec)
                   /\ wizard' = Returned("deploy", r.spec.Namespace,
                                    Append(r.output,
                                           IF last'.err # NoError
                                           THEN "Error deploying server"
                                           ELSE "deployed successfully"),
                                    r.read, <<"DeployMCPServer">>, turn.ended)
              ELSE /\ NoCall
                   /\ wizard' = Returned("deploy", r.spec.Namespace, r.output,
                                    r.read, <<>>, turn.ended)

\* case "3": func deleteServer, to the list of the servers to choose from
WizardDeleteList ==
    /\ Chosen("3")
    /\ \E turn \in ListTurns :
          LET back(output) == Returned("delete", turn.r.namespace, output, turn.r.read,
                                       <<"ListMCPServers">>, turn.ended)
          IN  /\ ListMCPServers(turn.r.namespace)
              /\ wizard' = IF last'.err # NoError THEN back(<<"Error listing servers">>)
                           ELSE IF Len(last'.servers) = 0
                                THEN back(<<"No MCP servers found">>)
                           ELSE [back(<<"Available MCP servers in namespace">>)
                                    EXCEPT !.pc = "delete-name"]

\* func deleteServer, from the name prompt on
WizardDeleteConfirm ==
    /\ wizard.pc = "delete-name"
    /\ \E turn \in IF wizard.eof THEN DeleteTurnsAtEnd ELSE DeleteTurns :
          LET r == turn.r
              back(output, called) ==
                  Returned("delete", wizard.namespace, wizard.output \o output,
                           [r.read EXCEPT !.namespace = wizard.read.namespace],
                           wizard.called \o called, wizard.eof \/ turn.ended)
          IN  IF r.proceed
              THEN /\ DeleteMCPServer(wizard.namespace, r.name)
                   /\ wizard' = back(Append(r.output,
                                            IF last'.err # NoError
                                            THEN "Error deleting server"
                                            ELSE "deleted successfully"),
                                     <<"DeleteMCPServer">>)
              ELSE /\ NoCall
                   /\ wizard' = back(r.output, <<>>)

\* case "4"
WizardExit ==
    /\ Chosen("4")
    /\ wizard' = [Returned("exit", "", <<"Goodbye!">>, NoneRead, <<>>, FALSE)
                     EXCEPT !.pc = "exited"]
    /\ NoCall

\* default: a line that is no option, or no line when the input has ended
WizardInvalid ==
    /\ wizard.pc = "menu"
    /\ \E ended \in BOOLEAN :
          /\ IF wizard.eof THEN ended
             ELSE ended \/ \E choice \in Choices : choice \notin {"1", "2", "3", "4"}
          /\ wizard' = Returned("invalid", "", <<"Invalid option. Please try again.">>,
                                NoneRead, <<>>, ended)
    /\ NoCall

\* the wizard, the one client of its cluster
NextWizard == WizardList \/ WizardDeploy \/ WizardDeleteList \/ WizardDeleteConfirm
                \/ WizardExit \/ WizardInvalid

SpecWizard == Init /\ [][NextWizard]_vars

(***************************************************************************)
(* Properties.                                                             *)
(***************************************************************************)
\* the key an operation was called for
LastKey == <<last.ns, last.name>>

\* C1: for every spec passed to DeployMCPServer (a conflicting value for the
\* required key and a nil Labels map included), the labels of the Deployment
\* submitted, and of the Deployment created, hold every other user label
\* unchanged and map mcp.opendatahub.io/mcp-server to exactly "true".
C1_RequiredLabel ==
    last.op = "deploy" =>
        LET submitted == last.calls[1].obj[1].Labels
            user == spec.Labels.m
        IN  /\ DOMAIN submitted = DOMAIN user \cup {MCPServerLabel}
            /\ submitted[MCPServerLabel] = "true"
            /\ \A k \in DOMAIN user \ {MCPServerLabel} : submitted[k] = user[k]
            /\ last.calls[1].err = NoError =>
                   /\ LastKey \in DOMAIN deployments
                   /\ deployments[LastKey].Labels = submitted

C1_Witness ==
    /\ last.op = "deploy"
    /\ last.calls[1].err = NoError
    /\ DOMAIN spec.Labels.m = {"app", MCPServerLabel}
    /\ spec.Labels.m[MCPServerLabel] = "false"
    /\ deployments[LastKey].Labels[MCPServerLabel] = "true"
    /\ deployments[LastKey].Labels["app"] = "x"

\* C2: after any sequence of DeployMCPServer and DeleteMCPServer calls, a
\* successful ListMCPServers(ns) returns every Deployment that DeployMCPServer
\* created in ns and that was not deleted, whatever labels its spec gave,
\* and returns only Deployments whose required label is "true".
C2_Discoverable ==
    (last.op = "list" /\ last.err = NoError) =>
        /\ \A k \in deployed :
               (last.ns = NamespaceAll \/ last.ns = k[1]) =>
                   \E i \in 1..Len(last.servers) :
                       /\ last.servers[i].Namespace = k[1]
                       /\ last.servers[i].Name = k[2]
        /\ \A i \in 1..Len(last.servers) :
               /\ MCPServerLabel \in DOMAIN last.servers[i].Labels
               /\ last.servers[i].Labels[MCPServerLabel] = "true"

C2_Witness ==
    /\ last.op = "list"
    /\ last.err = NoError
    /\ last.ns = "ns1"
    /\ <<"ns1", "s1">> \in deployed
    /\ spec.Labels.m = [k \in {MCPServerLabel} |-> "false"]
    /\ <<spec.Namespace, spec.Name>> = <<"ns1", "s1">>
    /\ deployments[<<"ns1", "s1">>].Containers[1].Image = spec.Image
    /\ ForeignKey \in DOMAIN deployments
    /\ deployments[ForeignKey].Labels[MCPServerLabel] = "false"
    /\ Len(last.servers) = 1
    /\ last.servers[1].Name = "s1"

\* C3: if the Deployment delete call of a DeleteMCPServer call fails, that
\* call never invokes the Service delete and returns an error.
C3_NoServiceDeleteAfterFailure ==
    (last.op = "delete" /\ last.calls[1].err # NoError) =>
        /\ \A i \in 1..Len(last.calls) : last.calls[i].api # "Services.Delete"
        /\ last.err # NoError

C3_Witness ==
    /\ last.op = "delete"
    /\ last.calls[1].api = "Deployments.Delete"
    /\ last.calls[1].err = <<"NotFound">>
    /\ LastKey \in DOMAIN services
    /\ Len(last.calls) = 1
    /\ last.err = <<"failed to delete deployment", "NotFound">>

\* the last operation got through its first call and failed in its second
SecondCallFailed(l, op) ==
    /\ l.op = op
    /\ Len(l.calls) >= 2
    /\ l.calls[1].err = NoError
    /\ l.calls[2].err # NoError

\* C4: if the Deployment delete of a DeleteMCPServer call succeeds and the
\* Service delete then fails, the call returns one error naming the service
\* delete, makes no further call (nothing is created again), the Deployment
\* is gone and the Services are as they were before the call.
C4_PartialDelete ==
    [][SecondCallFailed(last', "delete") =>
          /\ last'.err = Wrap("failed to delete service", last'.calls[2].err)
          /\ Len(last'.calls) = 2
          /\ last'.calls[1].api = "Deployments.Delete"
          /\ last'.calls[2].api = "Services.Delete"
          /\ <<last'.ns, last'.name>> \notin DOMAIN deployments'
          /\ services' = services]_vars

C4_Witness ==
    /\ SecondCallFailed(last, "delete")
    /\ last.calls[2].err = <<"ServerError">>
    /\ LastKey \notin DOMAIN deployments
    /\ LastKey \in DOMAIN services
    /\ last.err = <<"failed to delete service", "ServerError">>

\* C5 as claimed: if the Deployment creation of a DeployMCPServer call
\* succeeds and the Service creation then fails, the call returns an error
\* naming the service creation, no delete call is made, and the Deployment
\* stays in the cluster, listed by ListMCPServers, with no Service paired
\* with it.
C5_Claimed ==
    SecondCallFailed(last, "deploy") =>
        /\ last.err[1] = "failed to create service"
        /\ LastKey \in DOMAIN deployments
        /\ Matches(deployments[LastKey].Labels, ListSelector)
        /\ \A i \in 1..Len(last.calls) :
               last.calls[i].api \notin {"Deployments.Delete", "Services.Delete"}
        /\ LastKey \notin DOMAIN services

\* C5 as amended: if the Deployment creation of a DeployMCPServer call
\* succeeds and the Service creation then fails, the call returns an error
\* naming the service creation, no delete call is made, the Deployment stays
\* in the cluster, listed by ListMCPServers, and the call leaves the Services
\* as they were: the Deployment has a Service of its name only if one was
\* there before the call, as it is when the creation fails with
\* already-exists.
C5_PartialDeploy ==
    [][SecondCallFailed(last', "deploy") =>
          /\ last'.err[1] = "failed to create service"
          /\ <<last'.ns, last'.name>> \in DOMAIN deployments'
          /\ Matches(deployments'[<<last'.ns, last'.name>>].Labels, ListSelector)
          /\ \A i \in 1..Len(last'.calls) :
                 last'.calls[i].api \notin {"Deployments.Delete", "Services.Delete"}
          /\ services' = services
          /\ last'.calls[2].err = <<"AlreadyExists">> =>
                 <<last'.ns, last'.name>> \in DOMAIN services']_vars

C5_Witness ==
    /\ SecondCallFailed(last, "deploy")
    /\ last.calls[2].err = <<"ServerError">>
    /\ LastKey \in DOMAIN deployments
    /\ LastKey \notin DOMAIN services
    /\ last.err = <<"failed to create service", "failed to create service", "ServerError">>

\* C6: for every spec, the selector of the Service manifest DeployMCPServer
\* builds equals, as a key/value map, the labels of the Deployment manifest
\* built from the same spec, which are also the Deployment's own selector
\* and its pod-template labels.
C6_SelectorMatchesLabels ==
    (last.op = "deploy" /\ Len(last.calls) = 2) =>
        LET deployment == last.calls[1].obj[1]
            service == last.calls[2].obj[1]
        IN  /\ service.Selector = deployment.Labels
            /\ deployment.Selector = deployment.Labels
            /\ deployment.TemplateLabels = deployment.Labels
            /\ last.calls[2].err = NoError =>
                   services[LastKey].Selector = deployments[LastKey].Labels

C6_Witness ==
    /\ last.op = "deploy"
    /\ Len(last.calls) = 2
    /\ last.err = NoError
    /\ spec.Labels.m = [k \in {"app", MCPServerLabel} |-> IF k = "app" THEN "x" ELSE "false"]
    /\ services[LastKey].Selector =
           [k \in {"app", MCPServerLabel} |-> IF k = "app" THEN "x" ELSE "true"]

\* the statuses of a listing that are available, in order
AvailableServers(l) == SelectSeq(l.servers, LAMBDA st : st.Available)

\* the Services.Get call a listing made for its i-th status, which is available
GetCallOf(l, i) ==
    l.calls[1 + Cardinality({j \in 1..i : l.servers[j].Available})]

\* a step of ListMCPServers, seen from its two states
ListStep == last'.op = "list" /\ last'.err = NoError /\ UNCHANGED deployments

\* C7: in every status ListMCPServers returns, a Deployment with zero
\* available replicas has Available = false and an empty Endpoint, whether
\* or not a Service of its name exists; a non-empty Endpoint implies
\* Available = true; and Services.Get is called once for each available
\* Deployment and never for an unavailable one.
C7_UnavailableHasNoEndpoint ==
    [][ListStep =>
          /\ \A i \in 1..Len(last'.servers) :
                 LET st == last'.servers[i]
                     d == deployments[<<st.Namespace, st.Name>>]
                 IN  /\ st.Available <=> d.AvailableReplicas > 0
                     /\ d.AvailableReplicas = 0 => (~st.Available /\ st.Endpoint = "")
                     /\ st.Endpoint # "" => st.Available
          /\ Len(last'.calls) = 1 + Len(AvailableServers(last'))
          /\ \A j \in 1..Len(AvailableServers(last')) :
                 /\ last'.calls[1 + j].api = "Services.Get"
                 /\ last'.calls[1 + j].name = AvailableServers(last')[j].Name]_vars

C7_Witness ==
    /\ last.op = "list"
    /\ last.err = NoError
    /\ Len(last.calls) = 1
    /\ \E i \in 1..Len(last.servers) :
           LET st == last.servers[i]
           IN  /\ ~st.Available
               /\ st.Endpoint = ""
               /\ st.Namespace = last.ns
               /\ <<st.Namespace, st.Name>> \in DOMAIN services
               /\ deployments[<<st.Namespace, st.Name>>].AvailableReplicas = 0

\* the text of the ports in use
PortText(p) == CASE p = 0 -> "0" [] p = 80 -> "80" [] p = 8080 -> "8080" [] p = 9000 -> "9000"

\* C8: for every Deployment ListMCPServers returns, for any namespace
\* argument (all namespaces, "", included), that is available and for which
\* a Service of the Deployment's own name in the Deployment's own namespace
\* exists with at least one port, the Endpoint is "<service name>:<first
\* port>" (when the lookup call does not fail with a server error).
C8_EndpointOfOwnService ==
    (last.op = "list" /\ last.err = NoError) =>
        \A i \in 1..Len(last.servers) :
            LET st == last.servers[i]
                key == <<st.Namespace, st.Name>>
            IN  (/\ st.Available
                 /\ key \in DOMAIN services
                 /\ Len(services[key].Ports) > 0
                 /\ GetCallOf(last, i).err # <<"ServerError">>)
                => st.Endpoint = services[key].Name \o ":"
                                     \o PortText(services[key].Ports[1].Port)

\* C9: ListMCPServers returns an error, and then no status, exactly when the
\* Deployments.List call fails; a Services.Get that fails, with not-found or
\* any other error, leaves the listing successful and its Deployment in the
\* result, with an empty Endpoint.
C9_LookupFailuresIgnored ==
    last.op = "list" =>
        /\ last.err # NoError <=> last.calls[1].err # NoError
        /\ last.err # NoError => (last.servers = <<>> /\ Len(last.calls) = 1)
        /\ last.err = NoError =>
               LET expected == SelectSeq(AllKeys, LAMBDA k :
                                   /\ k \in DOMAIN deployments
                                   /\ (last.ns = NamespaceAll \/ k[1] = last.ns)
                                   /\ MCPServerLabel \in DOMAIN deployments[k].Labels
                                   /\ deployments[k].Labels[MCPServerLabel] = "true")
               IN  /\ Len(last.servers) = Len(expected)
                   /\ \A i \in 1..Len(expected) :
                          <<last.servers[i].Namespace, last.servers[i].Name>> = expected[i]
                   /\ \A i \in 1..Len(last.servers) :
                          (last.servers[i].Available /\ GetCallOf(last, i).err # NoError)
                              => last.servers[i].Endpoint = ""

C9_Witness ==
    /\ last.op = "list"
    /\ last.err = NoError
    /\ \E i \in 1..Len(last.servers) :
           /\ last.servers[i].Available
           /\ <<last.servers[i].Namespace, last.servers[i].Name>> \in DOMAIN services
           /\ last.servers[i].Namespace = last.ns
           /\ GetCallOf(last, i).err = <<"ServerError">>
           /\ last.servers[i].Endpoint = ""

\* the volume names, written out
SecretVolumeNames == <<"secret-0", "secret-1", "secret-2", "secret-3", "secret-4",
                       "secret-5", "secret-6", "secret-7", "secret-8", "secret-9",
                       "secret-10", "secret-11", "secret-12", "secret-13">>

\* C10: for every spec with n secret mounts (n >= 0, secret names may
\* repeat), the Deployment manifest has exactly n volumes and n volume
\* mounts in the spec's order: the i-th volume is named "secret-<i>" and
\* holds the i-th secret name, the i-th mount names that volume, has the
\* i-th mount path and is read-only; the n volume names differ pairwise.
C10_SecretVolumes ==
    last.op = "deploy" =>
        LET deployment == last.calls[1].obj[1]
            volumes == deployment.Volumes
            mounts == deployment.Containers[1].VolumeMounts
            n == Len(spec.SecretMounts)
        IN  /\ Len(volumes) = n
            /\ Len(mounts) = n
            /\ \A i \in 1..n :
                   /\ volumes[i].Name = SecretVolumeNames[i]
                   /\ volumes[i].SecretName = spec.SecretMounts[i].SecretName
                   /\ mounts[i].Name = volumes[i].Name
                   /\ mounts[i].MountPath = spec.SecretMounts[i].MountPath
                   /\ mounts[i].ReadOnly
            /\ \A i, j \in 1..n : i # j => volumes[i].Name # volumes[j].Name

C10_Witness ==
    /\ last.op = "deploy"
    /\ last.err = NoError
    /\ Len(spec.SecretMounts) >= 11
    /\ Len(deployments[LastKey].Volumes) = Len(spec.SecretMounts)
    /\ deployments[LastKey].Volumes[2].Name = "secret-1"
    /\ deployments[LastKey].Volumes[11].Name = "secret-10"
    /\ deployments[LastKey].Volumes[1].SecretName = deployments[LastKey].Volumes[2].SecretName

\* C15: for every spec whose Resources is nil, the container of the
\* Deployment manifest carries an explicit zero-valued resource requirement
\* (both lists present and nil); for a spec with Resources set it carries
\* exactly those requirements.
C15_Resources ==
    last.op = "deploy" =>
        LET carried == last.calls[1].obj[1].Containers[1].Resources
        IN  /\ DOMAIN carried = {"Requests", "Limits"}
            /\ spec.Resources.isNil =>
                   (carried.Requests = NilMap /\ carried.Limits = NilMap)
            /\ ~spec.Resources.isNil =>
                   /\ carried.Requests = spec.Resources.val.Requests
                   /\ carried.Limits = spec.Resources.val.Limits
            /\ last.calls[1].err = NoError =>
                   deployments[LastKey].Containers[1].Resources = carried

C15_Witness ==
    /\ last.op = "deploy"
    /\ last.calls[1].err = NoError
    /\ spec.Resources.isNil
    /\ deployments[LastKey].Containers[1].Resources.Limits.isNil
    /\ deployments[LastKey].Containers[1].Resources.Requests.isNil

\* a step of DeleteMCPServer or DeployMCPServer, seen from its two states
OperationStep(op) == last'.op = op /\ last' # last

\* C16: in any state where the Deployment <<namespace, name>> does not exist
\* and the Service of that name does, every DeleteMCPServer(namespace, name)
\* fails at the Deployment delete without calling the Service delete; no
\* step removes a Service whose Deployment does not exist, so no sequence of
\* DeleteMCPServer calls removes that Service.
C16_DeleteDoesNotConverge ==
    [][/\ \A k \in DOMAIN services :
              k \notin DOMAIN deployments => k \in DOMAIN services'
       /\ (/\ OperationStep("delete")
           /\ <<last'.ns, last'.name>> \notin DOMAIN deployments
           /\ <<last'.ns, last'.name>> \in DOMAIN services)
          => /\ last'.err # NoError
             /\ last'.err[1] = "failed to delete deployment"
             /\ Len(last'.calls) = 1
             /\ last'.calls[1].api = "Deployments.Delete"
             /\ services' = services]_vars

C16_Witness ==
    /\ last.op = "delete"
    /\ LastKey = <<"ns2", "s1">>
    /\ last.err = <<"failed to delete deployment", "NotFound">>
    /\ LastKey \notin DOMAIN deployments
    /\ LastKey \in DOMAIN services
    /\ services[LastKey].Ports[1].Port = 9000

\* C17: DeployMCPServer creates the Deployment before the Service and stops
\* at the first failure: when the Deployment creation fails the Service
\* creation is not called.  So while a Deployment exists, every
\* DeployMCPServer of its name and namespace fails and creates no Service:
\* a Service missing after a partial deploy stays missing.
C17_DeployStopsAtFirstFailure ==
    [][/\ last'.op = "deploy" =>
              /\ last'.calls[1].api = "Deployments.Create"
              /\ last'.calls[1].err # NoError =>
                     (Len(last'.calls) = 1 /\ last'.err # NoError)
              /\ Len(last'.calls) > 1 =>
                     (Len(last'.calls) = 2 /\ last'.calls[2].api = "Services.Create")
       /\ (OperationStep("deploy") /\ <<last'.ns, last'.name>> \in DOMAIN deployments)
          => /\ last'.err # NoError
             /\ last'.err[1] = "failed to create deployment"
             /\ Len(last'.calls) = 1
             /\ services' = services
             /\ deployments' = deployments]_vars

C17_Witness ==
    /\ last.op = "deploy"
    /\ last.err = <<"failed to create deployment", "failed to create deployment",
                    "AlreadyExists">>
    /\ Len(last.calls) = 1
    /\ LastKey \in DOMAIN deployments
    /\ LastKey \notin DOMAIN services

\* the calls of the last operation to a create primitive
CreateCalls(l) ==
    SelectSeq(l.calls, LAMBDA c : c.api \in {"Deployments.Create", "Services.Create"})

\* the ports of the manifest submitted by a create call
ManifestPorts(c) ==
    IF c.api = "Deployments.Create"
    THEN {c.obj[1].Containers[1].Ports[1].ContainerPort}
    ELSE {c.obj[1].Ports[1].Port, c.obj[1].Ports[1].TargetPort}

\* C12 as claimed: whenever a spec whose Port is the zero value is deployed,
\* the container port of the Deployment manifest and the port and target
\* port of the Service manifest are all 8080.
C12_Claimed ==
    (last.op = "deploy" /\ spec.Port = 0) =>
        \A i \in 1..Len(CreateCalls(last)) : ManifestPorts(CreateCalls(last)[i]) = {8080}

\* C12: DeployMCPServer submits the spec's Port as it is, zero included: the
\* container port of the Deployment manifest and the port and target port
\* of the Service manifest all equal spec.Port.  The default is the
\* wizard's: when its port prompt is answered with an empty line the spec
\* it deploys has Port 8080, so all three ports are 8080.
C12_PortDefault ==
    last.op = "deploy" =>
        /\ Len(CreateCalls(last)) = Len(last.calls)
        /\ \A i \in 1..Len(last.calls) : ManifestPorts(last.calls[i]) = {spec.Port}
        /\ (wizard.handler = "deploy" /\ TrimSpace(wizard.read.port) = <<>>) =>
               \A i \in 1..Len(last.calls) : ManifestPorts(last.calls[i]) = {8080}
        /\ last.err = NoError =>
               /\ ManifestPorts(Call("Deployments.Create", "", "", NoError,
                                     <<deployments[LastKey]>>)) = {spec.Port}
               /\ ManifestPorts(Call("Services.Create", "", "", NoError,
                                     <<services[LastKey]>>)) = {spec.Port}

C12_Witness ==
    /\ last.op = "deploy"
    /\ last.err = NoError
    /\ wizard.handler = "deploy"
    /\ wizard.read.port = <<"\n">>
    /\ spec.Port = 8080
    /\ deployments[LastKey].Containers[1].Ports[1].ContainerPort = 8080
    /\ services[LastKey].Ports[1].Port = 8080
    /\ services[LastKey].Ports[1].TargetPort = 8080

\* the typed answers that are "yes" or "y" in any case, with any blanks around
AcceptedAnswers == {<<"y", "e", "s", "\n">>, <<"Y", "E", "S", "\n">>, <<"y", "\n">>,
                    <<"Y", "\n">>, <<" ", "Y", " ", "\n">>, <<"y", "e", "s">>}

\* the calls of the last operation to a create or a delete primitive
WriteCalls(l) ==
    SelectSeq(l.calls, LAMBDA c : c.api \in {"Deployments.Create", "Services.Create",
                                             "Deployments.Delete", "Services.Delete"})

\* C13: in every turn of the wizard, DeployMCPServer is called only after
\* the deployment summary was printed and the confirmation was answered
\* "yes" or "y" (any case, blanks around ignored), and DeleteMCPServer only
\* after the warning was printed and answered the same way; a turn of the
\* deploy or delete handler with any other answer prints the cancellation,
\* makes no create or delete call and leaves the cluster as it was.
C13_ConfirmationGates ==
    [][/\ last'.op = "deploy" =>
              /\ wizard'.handler = "deploy"
              /\ wizard'.called = <<"DeployMCPServer">>
              /\ wizard'.output[1] = "=== Deployment Summary ==="
              /\ wizard'.read.confirm \in AcceptedAnswers
       /\ last'.op = "delete" =>
              /\ wizard'.handler = "delete"
              /\ wizard'.called = <<"ListMCPServers", "DeleteMCPServer">>
              /\ wizard'.output[2] = "WARNING: This will permanently delete"
              /\ wizard'.read.confirm \in AcceptedAnswers
       /\ (/\ wizard'.handler \in {"deploy", "delete"}
           /\ wizard'.pc = "menu"
           /\ wizard'.read.confirm \notin AcceptedAnswers)
          => /\ WriteCalls(last') = <<>>
             /\ last'.op \notin {"deploy", "delete"}
             /\ "DeployMCPServer" \notin {wizard'.called[i] : i \in DOMAIN wizard'.called}
             /\ "DeleteMCPServer" \notin {wizard'.called[i] : i \in DOMAIN wizard'.called}
             /\ deployments' = deployments
             /\ services' = services
       /\ (/\ wizard'.handler \in {"deploy", "delete"}
           /\ wizard'.pc = "menu"
           /\ wizard'.read.confirm \in AcceptedAnswers)
          => last'.op = wizard'.handler]_vars

C13_Witness ==
    /\ wizard.handler = "delete"
    /\ wizard.read.confirm = <<" ", "Y", " ", "\n">>
    /\ wizard.called = <<"ListMCPServers", "DeleteMCPServer">>
    /\ last.op = "delete"
    /\ last.err = NoError
    /\ LastKey \notin DOMAIN deployments
    /\ \E k \in DOMAIN deployments : k # LastKey

\* the characters of a typed line that are not blank
Typed(line) == {line[i] : i \in DOMAIN line} \ {" ", "\t", "\r", "\n"}

\* C14: every manifest the wizard submits to a create primitive has a
\* non-empty name, namespace and image.  A deploy turn whose name or image
\* entry is empty or blank prints the error and ends with no call to the
\* deployer or the cluster; a deploy turn whose namespace entry is empty
\* deploys to the namespace "default".
C14_RequiredFields ==
    /\ \A i \in 1..Len(CreateCalls(last)) :
          LET c == CreateCalls(last)[i]
          IN  /\ c.obj[1].Name # "" /\ c.name # ""
              /\ c.obj[1].Namespace # "" /\ c.ns # ""
              /\ c.api = "Deployments.Create" => c.obj[1].Containers[1].Image # ""
    /\ last.op = "deploy" => (spec.Name # "" /\ spec.Namespace # "" /\ spec.Image # "")
    /\ (wizard.handler = "deploy" /\ Typed(wizard.read.name) = {}) =>
          /\ wizard.output = <<"Error: Name is required">>
          /\ wizard.called = <<>>
          /\ last.calls = <<>>
    /\ (/\ wizard.handler = "deploy"
        /\ Typed(wizard.read.name) # {}
        /\ Typed(wizard.read.image) = {}) =>
          /\ wizard.output = <<"Error: Image is required">>
          /\ wizard.called = <<>>
          /\ last.calls = <<>>
    /\ (last.op = "deploy" /\ Typed(wizard.read.namespace) = {}) =>
          /\ spec.Namespace = "default"
          /\ \A i \in 1..Len(last.calls) :
                last.calls[i].ns = "default" /\ last.calls[i].obj[1].Namespace = "default"

C14_Witness ==
    /\ last.op = "deploy"
    /\ last.err = NoError
    /\ wizard.read.namespace = <<"\n">>
    /\ LastKey = <<"default", "s1">>
    /\ deployments[LastKey].Namespace = "default"
    /\ deployments[LastKey].Containers[1].Image = "img:v1"
    /\ services[LastKey].Namespace = "default"

====
